---------------------------- MODULE Spec2Model ----------------------------
(***************************************************************************)
(* A model of the OpenAI-Pinecone client library:                          *)
(*   - the storage backends behind the Database trait (SQLiteDB over one   *)
(*     rusqlite connection, PlanetScaleDB over a MySQL pool),              *)
(*   - the Pinecone request operations (upsert, query, update, fetch,      *)
(*     delete) with their pre-flight validation and the shared send,       *)
(*   - the OpenAI chat request with its sampling validation and send.      *)
(* Strings are sequences of one-character strings.  A Rust Option is a     *)
(* record whose field some tells Some from None.                           *)
(***************************************************************************)
EXTENDS Integers, Sequences, FiniteSets, TLC

\* ------------------------------------------------------------------------
\* Bounds of the model
\* ------------------------------------------------------------------------

\* longest data string a caller passes to create / update
MaxDataLen == 2

\* most fields a caller sets on one request builder
MaxFieldsSet == 3

\* longest indices / values sequence of a sparse vector
MaxSparseLen == 2

\* longest ids list and longest vectors list of a request
MaxListLen == 2

\* longest slice of f32 handed to insert_embedding_data
MaxEmbeddingLen == 2

\* longest byte string found in the embedding column
MaxBlobLen == 5

\* ------------------------------------------------------------------------
\* Values
\* ------------------------------------------------------------------------

Quote == "'"

\* characters of the strings callers pass: an ordinary letter and the quote
Chars == {"x", Quote}

\* all strings over Chars of length at most n
StrUpTo(n) == UNION {[1..k -> Chars] : k \in 0..n}

\* the data strings callers pass
DataValues == StrUpTo(MaxDataLen)

\* the ids callers pass: a plain id and one that holds quotes
IdValues == {<<"a">>, <<Quote, Quote>>}

None == [some |-> FALSE]
Some(v) == [some |-> TRUE, val |-> v]

\* Result<_, Box<dyn Error>> of a Database call
Ok(v) == [ok |-> TRUE, val |-> v, err |-> "none"]
Err(e) == [ok |-> FALSE, val |-> <<>>, err |-> e]

\* Ok(()) carries no value
Unit == <<>>

VARIABLES
    db,         \* which backend was constructed: "none", "SQLiteDB", "PlanetScaleDB"
    table,      \* the rows of the backend's table: a function from the stored ids to data
    prevTable,  \* history: the rows right before the last call
    lastCall    \* history: the last call made through the Database trait and its result

storageVars == <<db, table, prevTable, lastCall>>

VARIABLES
    pc,         \* where the caller is: "start", "build", "inflight", "done"
    builder,    \* the request under construction: "none", "PineconeRequest", "OpenAIRequest"
    req,        \* the fields of the PineconeRequest
    chat,       \* the sampling fields of the OpenAIRequest
    op,         \* the operation invoked on the built request, "none" before
    wire,       \* the HTTP requests handed to the client so far, in order
    reply,      \* history: the response the awaited request completed with
    result      \* what the operation returned, NoResult before it returns

apiVars == <<pc, builder, req, chat, op, wire, reply, result>>

VARIABLES
    embeddings, \* the &[f32] handed to insert_embedding_data, None before
    binary,     \* the embedding column of the row of text_embeddings, None without a row
    decoded     \* what convert_binary_to_embeddings returned in get_embedding_data

codecVars == <<embeddings, binary, decoded>>

VARIABLES
    task,       \* per task sharing the SQLiteDB: where it is, its call, its result
    holder,     \* the task owning the MutexGuard of conn, None when the mutex is free
    waiters,    \* the tasks parked in conn.lock().await, oldest first
    racing      \* history: the absent id that the calls in progress were both asked to create

lockVars == <<task, holder, waiters, racing>>

VARIABLES
    stores,     \* the rows of a SQLiteDB and of a PlanetScaleDB driven side by side
    pairCall,   \* the last call made on both
    outcomes    \* what each of the two returned to it

pairVars == <<stores, pairCall, outcomes>>

otherVars == <<codecVars, lockVars, pairVars>>

vars == <<db, table, prevTable, lastCall, pc, builder, req, chat, op, wire, reply, result,
          embeddings, binary, decoded, task, holder, waiters, racing,
          stores, pairCall, outcomes>>

NoCall == [op |-> "none", id |-> <<>>, data |-> <<>>, res |-> Ok(Unit)]

EmptyTable == [i \in {} |-> <<>>]

\* the table with the row (id, data) inserted or replaced
PutRow(t, id, data) == [i \in DOMAIN t \cup {id} |-> IF i = id THEN data ELSE t[i]]

\* the table without the row of id
DropRow(t, id) == [i \in DOMAIN t \ {id} |-> t[i]]

\* ------------------------------------------------------------------------
\* SQLiteDB (sql_lite.rs): parameterized statements on table items
\* ------------------------------------------------------------------------

\* INSERT OR REPLACE in place of INSERT: a stored id is overwritten
SqliteInsertOrReplace(t, id, data) == [table |-> PutRow(t, id, data), res |-> Ok(Unit)]

\* INSERT INTO items (id, data) VALUES (?1, ?2); id is the PRIMARY KEY
SqliteInsert(t, id, data) ==
    IF id \in DOMAIN t
    THEN [table |-> t, res |-> Err("ConstraintViolation")]
    ELSE [table |-> PutRow(t, id, data), res |-> Ok(Unit)]

\* SELECT data FROM items WHERE id = ?1, read with query_row
SqliteSelect(t, id) ==
    IF id \in DOMAIN t
    THEN [table |-> t, res |-> Ok(t[id])]
    ELSE [table |-> t, res |-> Err("QueryReturnedNoRows")]

\* UPDATE items SET data = ?2 WHERE id = ?1; execute returns Ok(rows changed)
SqliteUpdate(t, id, data) ==
    IF id \in DOMAIN t
    THEN [table |-> PutRow(t, id, data), res |-> Ok(Unit)]
    ELSE [table |-> t, res |-> Ok(Unit)]

\* DELETE FROM items WHERE id = ?1; execute returns Ok(rows changed)
SqliteDelete(t, id) == [table |-> DropRow(t, id), res |-> Ok(Unit)]


\* ------------------------------------------------------------------------
\* PlanetScaleDB (planetscale.rs): statements built with format! and run by
\* the MySQL server.  The pool is taken to hand out a connection, and
\* data_table to exist with the columns init declares (id the PRIMARY KEY).
\* ------------------------------------------------------------------------

InsertHead == "INSERT INTO data_table (id, data) VALUES ("
InsertSep == ", "
InsertTail == ")"
SelectHead == "SELECT data FROM data_table WHERE id = "
UpdateHead == "UPDATE data_table SET data = "
UpdateSep == " WHERE id = "
DeleteHead == "DELETE FROM data_table WHERE id = "

\* format!("INSERT INTO data_table (id, data) VALUES ('{}', '{}')", id, data)
FormatInsert(id, data) ==
    <<InsertHead, Quote>> \o id \o <<Quote, InsertSep, Quote>> \o data \o <<Quote, InsertTail>>

\* format!("SELECT data FROM data_table WHERE id = '{}'", id)
FormatSelect(id) == <<SelectHead, Quote>> \o id \o <<Quote>>

\* format!("UPDATE data_table SET data = '{}' WHERE id = '{}'", data, id)
FormatUpdate(id, data) ==
    <<UpdateHead, Quote>> \o data \o <<Quote, UpdateSep, Quote>> \o id \o <<Quote>>

\* format!("DELETE FROM data_table WHERE id = '{}'", id)
FormatDelete(id) == <<DeleteHead, Quote>> \o id \o <<Quote>>

\* The server reads the inside of a quoted string of q from position i: two
\* quotes in a row stand for one quote, a single quote ends the string.
RECURSIVE ScanString(_, _, _)
ScanString(q, i, acc) ==
    IF i > Len(q) THEN [ok |-> FALSE, val |-> acc, next |-> i]
    ELSE IF q[i] = Quote
         THEN IF i < Len(q) /\ q[i + 1] = Quote
              THEN ScanString(q, i + 2, Append(acc, Quote))
              ELSE [ok |-> TRUE, val |-> acc, next |-> i + 1]
         ELSE ScanString(q, i + 1, Append(acc, q[i]))

\* The server reads a string literal of q that starts at position i.
ScanLiteral(q, i) ==
    IF i <= Len(q) /\ q[i] = Quote
    THEN ScanString(q, i + 1, <<>>)
    ELSE [ok |-> FALSE, val |-> <<>>, next |-> i]

\* TRUE when q holds exactly the token tok at position i
TokenAt(q, i, tok) == i <= Len(q) /\ q[i] = tok

SyntaxError == [kind |-> "error", id |-> <<>>, data |-> <<>>]

\* The statement the server reads from the text q.
ParseStatement(q) ==
    IF TokenAt(q, 1, InsertHead) THEN
        LET a == ScanLiteral(q, 2) IN
        IF ~(a.ok /\ TokenAt(q, a.next, InsertSep)) THEN SyntaxError
        ELSE LET b == ScanLiteral(q, a.next + 1) IN
             IF b.ok /\ TokenAt(q, b.next, InsertTail) /\ b.next = Len(q)
             THEN [kind |-> "insert", id |-> a.val, data |-> b.val]
             ELSE SyntaxError
    ELSE IF TokenAt(q, 1, SelectHead) THEN
        LET a == ScanLiteral(q, 2) IN
        IF a.ok /\ a.next = Len(q) + 1
        THEN [kind |-> "select", id |-> a.val, data |-> <<>>]
        ELSE SyntaxError
    ELSE IF TokenAt(q, 1, UpdateHead) THEN
        LET a == ScanLiteral(q, 2) IN
        IF ~(a.ok /\ TokenAt(q, a.next, UpdateSep)) THEN SyntaxError
        ELSE LET b == ScanLiteral(q, a.next + 1) IN
             IF b.ok /\ b.next = Len(q) + 1
             THEN [kind |-> "update", id |-> b.val, data |-> a.val]
             ELSE SyntaxError
    ELSE IF TokenAt(q, 1, DeleteHead) THEN
        LET a == ScanLiteral(q, 2) IN
        IF a.ok /\ a.next = Len(q) + 1
        THEN [kind |-> "delete", id |-> a.val, data |-> <<>>]
        ELSE SyntaxError
    ELSE SyntaxError

\* The server runs the statement text q on the rows t: the rows afterwards
\* and the rows found (select) or the error.
MysqlRun(t, q) ==
    LET st == ParseStatement(q) IN
    CASE st.kind = "error" ->
            [table |-> t, err |-> "SyntaxError", row |-> None]
      [] st.kind = "insert" ->
            IF st.id \in DOMAIN t
            THEN [table |-> t, err |-> "DuplicateEntry", row |-> None]
            ELSE [table |-> PutRow(t, st.id, st.data), err |-> "none", row |-> None]
      [] st.kind = "select" ->
            [table |-> t, err |-> "none",
             row |-> IF st.id \in DOMAIN t THEN Some(t[st.id]) ELSE None]
      [] st.kind = "update" ->
            [table |-> IF st.id \in DOMAIN t THEN PutRow(t, st.id, st.data) ELSE t,
             err |-> "none", row |-> None]
      [] st.kind = "delete" ->
            [table |-> DropRow(t, st.id), err |-> "none", row |-> None]

\* PlanetScaleDB::execute_query: query_drop, the server's error passed on by ?
execute_query(t, q) ==
    LET r == MysqlRun(t, q) IN
    [table |-> r.table, res |-> IF r.err = "none" THEN Ok(Unit) ELSE Err(r.err)]

\* PlanetScaleDB::read: query_first, then the match on the row
PlanetScaleSelect(t, id) ==
    LET r == MysqlRun(t, FormatSelect(id)) IN
    [table |-> r.table,
     res |-> IF r.err # "none" THEN Err(r.err)
             ELSE IF r.row.some THEN Ok(r.row.val)
             ELSE Err("NotFound")]


\* ------------------------------------------------------------------------
\* The Database trait (database.rs), called by one caller at a time
\* ------------------------------------------------------------------------

\* what the backend b answers to read(id) on the rows t
ReadOf(b, t, id) ==
    IF b = "SQLiteDB" THEN SqliteSelect(t, id).res ELSE PlanetScaleSelect(t, id).res

\* the call is recorded with the rows it found and the rows it leaves
Record(o, id, data, out) ==
    /\ prevTable' = table
    /\ table' = out.table
    /\ lastCall' = [op |-> o, id |-> id, data |-> data, res |-> out.res]
    /\ UNCHANGED db
    /\ UNCHANGED <<apiVars, otherVars>>

StorageInit ==
    /\ db = "none"
    /\ table = EmptyTable
    /\ prevTable = EmptyTable
    /\ lastCall = NoCall

\* SQLiteDB::new: opens the connection and creates table items
SQLiteDB_new ==
    /\ db = "none"
    /\ db' = "SQLiteDB"
    /\ UNCHANGED <<table, prevTable, lastCall>>
    /\ UNCHANGED <<apiVars, otherVars>>

\* PlanetScaleDB::new: builds the pool and runs init
PlanetScaleDB_new ==
    /\ db = "none"
    /\ db' = "PlanetScaleDB"
    /\ UNCHANGED <<table, prevTable, lastCall>>
    /\ UNCHANGED <<apiVars, otherVars>>

SQLiteDB_create(id, data) ==
    /\ db = "SQLiteDB"
    /\ Record("create", id, data, SqliteInsert(table, id, data))

SQLiteDB_read(id) ==
    /\ db = "SQLiteDB"
    /\ Record("read", id, <<>>, SqliteSelect(table, id))

SQLiteDB_update(id, data) ==
    /\ db = "SQLiteDB"
    /\ Record("update", id, data, SqliteUpdate(table, id, data))

SQLiteDB_delete(id) ==
    /\ db = "SQLiteDB"
    /\ Record("delete", id, <<>>, SqliteDelete(table, id))

PlanetScaleDB_create(id, data) ==
    /\ db = "PlanetScaleDB"
    /\ Record("create", id, data, execute_query(table, FormatInsert(id, data)))

PlanetScaleDB_read(id) ==
    /\ db = "PlanetScaleDB"
    /\ Record("read", id, <<>>, PlanetScaleSelect(table, id))

PlanetScaleDB_update(id, data) ==
    /\ db = "PlanetScaleDB"
    /\ Record("update", id, data, execute_query(table, FormatUpdate(id, data)))

PlanetScaleDB_delete(id) ==
    /\ db = "PlanetScaleDB"
    /\ Record("delete", id, <<>>, execute_query(table, FormatDelete(id)))

StorageNext ==
    \/ SQLiteDB_new
    \/ PlanetScaleDB_new
    \/ \E id \in IdValues, data \in DataValues : SQLiteDB_create(id, data)
    \/ \E id \in IdValues : SQLiteDB_read(id)
    \/ \E id \in IdValues, data \in DataValues : SQLiteDB_update(id, data)
    \/ \E id \in IdValues : SQLiteDB_delete(id)
    \/ \E id \in IdValues, data \in DataValues : PlanetScaleDB_create(id, data)
    \/ \E id \in IdValues : PlanetScaleDB_read(id)
    \/ \E id \in IdValues, data \in DataValues : PlanetScaleDB_update(id, data)
    \/ \E id \in IdValues : PlanetScaleDB_delete(id)

\* ------------------------------------------------------------------------
\* PineconeRequest (pinecone_data.rs)
\* ------------------------------------------------------------------------

\* the longest id query and update accept
MaxIdLen == 512

\* a string of n characters
StringOfLen(n) == [i \in 1..n |-> "a"]

\* a Vector with n values and no indices
DenseVector(n) ==
    [id |-> None, values |-> [i \in 1..n |-> 1], indices |-> None, metadata |-> None]

\* a Vector with n values and, unless k < 0, Some indices of length k
SparseVector(k, n) ==
    [id |-> None,
     values |-> [i \in 1..n |-> 1],
     indices |-> IF k < 0 THEN None ELSE Some([i \in 1..k |-> i]),
     metadata |-> None]

SparseVectors == {SparseVector(k, n) : k \in -1..MaxSparseLen, n \in 0..MaxSparseLen}

\* IdList
IntegerIds(l) == [variant |-> "IntegerIds", list |-> l]
TextIds(l) == [variant |-> "TextIds", list |-> l]

TextIdNames == {<<"v", "1">>, <<"v", "2">>}

IdLists ==
    {IntegerIds([i \in 1..n |-> i]) : n \in 0..MaxListLen}
        \cup {TextIds(l) : l \in UNION {[1..n -> TextIdNames] : n \in 0..MaxListLen}}

PineconeFields ==
    {"vectors", "namespace", "vector", "top_k", "set_metadata", "sparse_vector",
     "sparse_values", "ids", "id", "delete_all"}

\* the values a caller gives to the builder's setter of field f
FieldValues(f) ==
    CASE f = "vectors" -> {[i \in 1..n |-> DenseVector(1)] : n \in 0..MaxListLen}
      [] f = "namespace" -> {<<"n", "s">>}
      [] f = "vector" -> {DenseVector(1)}
      [] f = "top_k" -> {-1, 0, 1}
      [] f = "set_metadata" -> {<<"k", "v">>}
      [] f = "sparse_vector" -> SparseVectors
      [] f = "sparse_values" -> SparseVectors
      [] f = "ids" -> IdLists
      [] f = "id" -> {StringOfLen(n) : n \in {0, 1, 2, MaxIdLen, MaxIdLen + 1}}
      [] f = "delete_all" -> BOOLEAN

\* PineconeRequest::builder(): every field defaults to None
NewPineconeRequest == [f \in PineconeFields |-> None]

\* the name serde gives field f on the wire
WireName(f) ==
    CASE f = "top_k" -> "topK"
      [] f = "set_metadata" -> "setMetadata"
      [] f = "sparse_vector" -> "sparseVector"
      [] f = "sparse_values" -> "sparseValues"
      [] f = "delete_all" -> "deleteAll"
      [] OTHER -> f

\* serde_json of a PineconeRequest: a None field is skipped
Serialize(r) ==
    {<<WireName(f), r[f].val>> : f \in {g \in PineconeFields : r[g].some}}

\* ------------------------------------------------------------------------
\* Pinecone operations (pinecone_api.rs)
\* ------------------------------------------------------------------------

BASE_URL == "https://test-index-1a567db.svc.us-west4-gcp.pinecone.io/"
UPSERT == "vectors/upsert"
QUERY == "query"
UPDATE == "vectors/update"
FETCH == "vectors/fetch"
DELETE == "vectors/delete"

\* PineconeApiError::<variant>(msg)
ApiError(variant, msg) == [ok |-> FALSE, variant |-> variant, msg |-> msg]
ApiOk == [ok |-> TRUE, variant |-> "none", msg |-> "none"]
NoResult == [ok |-> FALSE, variant |-> "none", msg |-> "pending"]

\* upsert's check with map_or(false, ..): absent vectors pass
validate_upsert_request_absent_ok(r) ==
    IF (IF r.vectors.some THEN Len(r.vectors.val) = 0 ELSE FALSE)
    THEN Some(ApiError("UpsertError", "vectors cannot be empty"))
    ELSE None

\* the check at the head of upsert: the error it returns, None to go on
validate_upsert_request(r) ==
    IF (IF r.vectors.some THEN Len(r.vectors.val) = 0 ELSE TRUE)
    THEN Some(ApiError("UpsertError", "vectors cannot be empty"))
    ELSE None

\* the top_k test with k < &0 in place of k < &1
top_k_below_zero(k) == k < 0

\* k < &1, the test of "top_k must be at least 1"
top_k_below_one(k) == k < 1

validate_query_request(r) ==
    IF (IF r.id.some THEN Len(r.id.val) > MaxIdLen ELSE FALSE)
    THEN Some(ApiError("QueryError", "id length must be 512 or less"))
    ELSE IF ~r.vector.some
    THEN Some(ApiError("QueryError", "vector cannot be empty"))
    ELSE IF ~r.top_k.some
    THEN Some(ApiError("QueryError", "top_k cannot be empty"))
    ELSE IF top_k_below_one(r.top_k.val)
    THEN Some(ApiError("QueryError", "top_k must be at least 1"))
    ELSE IF r.sparse_vector.some
    THEN LET sparse == r.sparse_vector.val
             indices_len == IF sparse.indices.some THEN Len(sparse.indices.val) ELSE 0
             values_len == Len(sparse.values)
         IN IF indices_len = 0
            THEN Some(ApiError("QueryError",
                     "indices cannot be empty when providing a sparse_vector"))
            ELSE IF indices_len # values_len
            THEN Some(ApiError("QueryError",
                     "indices and values must have the same length when providing a sparse_vector"))
            ELSE None
    ELSE None

\* self.metadata() in the source reads the request's metadata, the field set_metadata
validate_update_request(r) ==
    LET id_len == IF r.id.some THEN Len(r.id.val) ELSE 0 IN
    IF id_len <= 1 \/ id_len > MaxIdLen
    THEN Some(ApiError("UpdateError",
             "id is required and must have a length between 1 and 512"))
    ELSE IF ~r.sparse_values.some /\ ~r.set_metadata.some
    THEN Some(ApiError("UpdateError",
             "You must provide something to update! Provide either a sparse_values or set_metadata field"))
    ELSE IF r.sparse_values.some
    THEN LET sparse == r.sparse_values.val
             indices_len == IF sparse.indices.some THEN Len(sparse.indices.val) ELSE 0
             values_len == Len(sparse.values)
         IN IF values_len = 0 \/ indices_len = 0 \/ values_len # indices_len
            THEN Some(ApiError("UpdateError",
                     "sparse indices and values cannot be empty and must have the same length."))
            ELSE None
    ELSE None

\* delete's check with the IntegerIds arm passing once delete_all is set
validate_delete_request_integer_ok(r) ==
    IF ~r.ids.some /\ ~r.delete_all.some
    THEN Some(ApiError("DeleteError", "You must provide either delete_all or ids to delete"))
    ELSE IF ~r.ids.some THEN None
    ELSE IF r.ids.val.variant = "IntegerIds"
    THEN IF r.delete_all.some THEN None
         ELSE Some(ApiError("DeleteError", "ids must be Strings"))
    ELSE IF Len(r.ids.val.list) = 0
    THEN Some(ApiError("DeleteError", "ids cannot be empty"))
    ELSE None

validate_delete_request(r) ==
    IF ~r.ids.some /\ ~r.delete_all.some
    THEN Some(ApiError("DeleteError", "You must provide either delete_all or ids to delete"))
    ELSE IF ~r.ids.some THEN None
    ELSE IF r.ids.val.variant = "IntegerIds"
    THEN Some(ApiError("DeleteError", "ids must be Strings"))
    ELSE IF Len(r.ids.val.list) = 0
    THEN Some(ApiError("DeleteError", "ids cannot be empty"))
    ELSE None

\* the if let at the head of fetch: Some(IdList::TextIds(ids)) or the error
validate_fetch_request(r) ==
    IF r.ids.some /\ r.ids.val.variant = "TextIds"
    THEN None
    ELSE Some(ApiError("FetchError", "ids cannot be empty"))

\* the fold of fetch: "&ids=<id>" appended to BASE_URL for each id in turn
RECURSIVE FetchFold(_, _)
FetchFold(url, ids) ==
    IF ids = <<>> THEN url
    ELSE FetchFold(url \o <<"&ids=">> \o Head(ids), Tail(ids))

\* the url fetch requests
FetchUrl(r) ==
    LET url_temp == FetchFold(<<BASE_URL>>, r.ids.val.list) IN
    IF r.namespace.some
    THEN url_temp \o <<"&namespace=">> \o r.namespace.val
    ELSE url_temp

\* ------------------------------------------------------------------------
\* OpenAIRequest (openai_api.rs): the sampling fields, f64 in hundredths
\* ------------------------------------------------------------------------

\* an f64: a number of hundredths, or NaN
F64(h) == [nan |-> FALSE, x |-> h]
NaN == [nan |-> TRUE, x |-> 0]

\* a < b on f64: FALSE as soon as one side is NaN
FLt(a, b) == ~a.nan /\ ~b.nan /\ a.x < b.x

SamplingFields == {"temperature", "top_p", "presence_penalty", "frequency_penalty"}

\* the values a caller gives to a sampling setter
SamplingValues ==
    {F64(h) : h \in {-201, -200, -1, 0, 100, 101, 200, 201}} \cup {NaN}

\* OpenAIRequest::builder(): every sampling field defaults to None
NewOpenAIRequest == [f \in SamplingFields |-> None]

\* Option::unwrap_or(0.0)
UnwrapOrZero(o) == IF o.some THEN o.val ELSE F64(0)

\* OpenAIRequest::validate: the error it returns, None for Ok(())
validate(c) ==
    LET temp == UnwrapOrZero(c.temperature)
        p == UnwrapOrZero(c.top_p)
        presence_penalty == UnwrapOrZero(c.presence_penalty)
        frequency_penalty == UnwrapOrZero(c.frequency_penalty)
    IN IF FLt(temp, F64(0)) \/ FLt(F64(200), temp)
       THEN Some(ApiError("InvalidTemperature", "temperature must be between 0 and 2."))
       ELSE IF FLt(p, F64(0)) \/ FLt(F64(100), p)
       THEN Some(ApiError("InvalidTopP", "Top_p must be between 0 and 1."))
       ELSE IF FLt(presence_penalty, F64(-200)) \/ FLt(F64(200), presence_penalty)
       THEN Some(ApiError("InvalidPresencePenalty",
                "Presence_penalty must be between -2.0 and 2.0."))
       ELSE IF FLt(frequency_penalty, F64(-200)) \/ FLt(F64(200), frequency_penalty)
       THEN Some(ApiError("InvalidFrequencyPenalty",
                "Frequency_penalty must be between -2.0 and 2.0."))
       ELSE None

\* serde_json of an OpenAIRequest: a None field is skipped
SerializeChat(c) == {<<f, c[f].val>> : f \in {g \in SamplingFields : c[g].some}}

CHAT_URL == "https://api.openai.com/v1/chat/completions"

\* ------------------------------------------------------------------------
\* The HTTP client and the server behind it
\* ------------------------------------------------------------------------

\* what comes back for one request: nothing (the transport failed), or a
\* response with a status that is a success or not and a body that
\* deserializes into the response type or not
NoResponse == [arrived |-> FALSE, success |-> FALSE, parses |-> FALSE]
Responses ==
    {NoResponse} \cup {[arrived |-> TRUE, success |-> s, parses |-> j] : s, j \in BOOLEAN}

Post(url, body) == [method |-> "POST", url |-> url, body |-> body]
Get(url) == [method |-> "GET", url |-> url, body |-> {}]

\* ------------------------------------------------------------------------
\* The caller: builds one request, invokes one operation on it
\* ------------------------------------------------------------------------

ApiInit ==
    /\ pc = "start"
    /\ builder = "none"
    /\ req = NewPineconeRequest
    /\ chat = NewOpenAIRequest
    /\ op = "none"
    /\ wire = <<>>
    /\ reply = None
    /\ result = NoResult

PineconeRequest_builder ==
    /\ pc = "start"
    /\ pc' = "build"
    /\ builder' = "PineconeRequest"
    /\ UNCHANGED <<req, chat, op, wire, reply, result>>
    /\ UNCHANGED <<storageVars, otherVars>>

OpenAIRequest_builder ==
    /\ pc = "start"
    /\ pc' = "build"
    /\ builder' = "OpenAIRequest"
    /\ UNCHANGED <<req, chat, op, wire, reply, result>>
    /\ UNCHANGED <<storageVars, otherVars>>

FieldsSet(r) == {f \in DOMAIN r : r[f].some}

\* a setter of the PineconeRequest builder; the typed builder takes each once
PineconeRequest_set(f, v) ==
    /\ pc = "build"
    /\ builder = "PineconeRequest"
    /\ ~req[f].some
    /\ Cardinality(FieldsSet(req)) < MaxFieldsSet
    /\ req' = [req EXCEPT ![f] = Some(v)]
    /\ UNCHANGED <<pc, builder, chat, op, wire, reply, result>>
    /\ UNCHANGED <<storageVars, otherVars>>

\* a setter of the OpenAIRequest builder
OpenAIRequest_set(f, v) ==
    /\ pc = "build"
    /\ builder = "OpenAIRequest"
    /\ ~chat[f].some
    /\ chat' = [chat EXCEPT ![f] = Some(v)]
    /\ UNCHANGED <<pc, builder, req, op, wire, reply, result>>
    /\ UNCHANGED <<storageVars, otherVars>>

\* An operation on the built request: the validation error is returned at
\* once, otherwise the request http goes to the client and is awaited.
Invoke(name, check, http) ==
    /\ pc = "build"
    /\ op' = name
    /\ IF check.some
       THEN /\ result' = check.val
            /\ pc' = "done"
            /\ UNCHANGED wire
       ELSE /\ wire' = Append(wire, http)
            /\ pc' = "inflight"
            /\ UNCHANGED result
    /\ UNCHANGED <<builder, req, chat, reply>>
    /\ UNCHANGED <<storageVars, otherVars>>

\* PineconeRequest::send up to the await: POST of self as json to BASE_URL + endpoint
send(endpoint) == Post(<<BASE_URL, endpoint>>, Serialize(req))

upsert ==
    /\ builder = "PineconeRequest"
    /\ Invoke("upsert", validate_upsert_request(req), send(UPSERT))

query ==
    /\ builder = "PineconeRequest"
    /\ Invoke("query", validate_query_request(req), send(QUERY))

update ==
    /\ builder = "PineconeRequest"
    /\ Invoke("update", validate_update_request(req), send(UPDATE))

delete ==
    /\ builder = "PineconeRequest"
    /\ Invoke("delete", validate_delete_request(req), send(DELETE))

\* fetch without the if let: whatever ids is, a GET of BASE_URL goes out
fetch_unchecked ==
    /\ builder = "PineconeRequest"
    /\ Invoke("fetch", None, Get(<<BASE_URL>>))

fetch ==
    /\ builder = "PineconeRequest"
    /\ Invoke("fetch", validate_fetch_request(req),
              IF validate_fetch_request(req).some THEN Get(<<>>) ELSE Get(FetchUrl(req)))

OpenAIRequest_send ==
    /\ builder = "OpenAIRequest"
    /\ Invoke("chat", validate(chat), Post(<<CHAT_URL>>, SerializeChat(chat)))

\* the error variant the operation o hands to send
ErrorOf(o) ==
    CASE o = "upsert" -> "UpsertError"
      [] o = "query" -> "QueryError"
      [] o = "update" -> "UpdateError"
      [] o = "delete" -> "DeleteError"
      [] o = "fetch" -> "FetchError"
      [] OTHER -> "Box<dyn Error>"

\* PineconeRequest::send after the await: the match on the response
send_result(o, resp) ==
    IF ~resp.arrived THEN ApiError(ErrorOf(o), "transport")
    ELSE IF ~resp.success THEN ApiError(ErrorOf(o), "Error status")
    ELSE IF ~resp.parses THEN ApiError(ErrorOf(o), "decode")
    ELSE ApiOk

\* fetch after the await: send()'s error, then json()'s error, each mapped
fetch_result(resp) ==
    IF ~resp.arrived THEN ApiError("FetchError", "transport")
    ELSE IF ~resp.parses THEN ApiError("FetchError", "decode")
    ELSE ApiOk

\* OpenAIRequest::send after the await
chat_result(resp) ==
    IF ~resp.arrived THEN ApiError("Box<dyn Error>", "Failed to send request.")
    ELSE IF ~resp.parses THEN ApiError("Box<dyn Error>", "Failed to deserialize response.")
    ELSE ApiOk

\* the awaited request completes and the operation returns
Return(resp, r) ==
    /\ pc = "inflight"
    /\ reply' = Some(resp)
    /\ result' = r
    /\ pc' = "done"
    /\ UNCHANGED <<builder, req, chat, op, wire>>
    /\ UNCHANGED <<storageVars, otherVars>>

\* send with a retry: a failed transport posts the same request again
send_response_retry(resp) ==
    /\ op \in {"upsert", "query", "update", "delete"}
    /\ IF resp.arrived
       THEN Return(resp, send_result(op, resp))
       ELSE /\ pc = "inflight"
            /\ Len(wire) < 2
            /\ wire' = Append(wire, wire[Len(wire)])
            /\ UNCHANGED <<pc, builder, req, chat, op, reply, result>>
            /\ UNCHANGED <<storageVars, otherVars>>

send_response(resp) ==
    /\ op \in {"upsert", "query", "update", "delete"}
    /\ Return(resp, send_result(op, resp))

fetch_response(resp) ==
    /\ op = "fetch"
    /\ Return(resp, fetch_result(resp))

OpenAIRequest_send_response(resp) ==
    /\ op = "chat"
    /\ Return(resp, chat_result(resp))

ApiNext ==
    \/ PineconeRequest_builder
    \/ OpenAIRequest_builder
    \/ \E f \in PineconeFields : \E v \in FieldValues(f) : PineconeRequest_set(f, v)
    \/ \E f \in SamplingFields : \E v \in SamplingValues : OpenAIRequest_set(f, v)
    \/ upsert
    \/ query
    \/ update
    \/ fetch
    \/ delete
    \/ OpenAIRequest_send
    \/ \E resp \in Responses : send_response(resp)
    \/ \E resp \in Responses : fetch_response(resp)
    \/ \E resp \in Responses : OpenAIRequest_send_response(resp)


\* ------------------------------------------------------------------------
\* The embedding codec (database.rs) and its callers (planetscale.rs)
\* ------------------------------------------------------------------------

\* An f32 is its IEEE-754 bit pattern: 1 sign bit, 8 exponent bits, 23
\* mantissa bits. The pattern is kept in its three parts, whose values fit
\* the integers of the checker.
F32(s, e, m) == [sign |-> s, exponent |-> e, mantissa |-> m]

\* 0.0, -0.0, 1.0, -1.5, +infinity, a quiet NaN, a negative NaN with a
\* payload, and the pattern 0x01020304 whose four bytes all differ
F32Values ==
    { F32(0, 0, 0), F32(1, 0, 0), F32(0, 127, 0), F32(1, 127, 4194304),
      F32(0, 255, 0), F32(0, 255, 4194304), F32(1, 255, 1), F32(0, 2, 131844) }

ByteValues == {0, 1, 128, 255}

SeqsUpTo(S, n) == UNION {[1..k -> S] : k \in 0..n}

\* f32::to_le_bytes: the four bytes of the pattern, lowest first
to_le_bytes(f) ==
    << f.mantissa % 256,
       (f.mantissa \div 256) % 256,
       (f.mantissa \div 65536) + 128 * (f.exponent % 2),
       (f.exponent \div 2) + 128 * f.sign >>

\* the four bytes read highest first
from_be_bytes(chunk) ==
    F32(chunk[1] \div 128,
        2 * (chunk[1] % 128) + (chunk[2] \div 128),
        65536 * (chunk[2] % 128) + 256 * chunk[3] + chunk[4])

\* f32::from_le_bytes: the pattern whose lowest byte is chunk[1]
from_le_bytes(chunk) ==
    F32(chunk[4] \div 128,
        2 * (chunk[4] % 128) + (chunk[3] \div 128),
        65536 * (chunk[3] % 128) + 256 * chunk[2] + chunk[1])

\* slice::chunks_exact(4): the full chunks in order; the up to three bytes
\* left over are not among them
chunks_exact(bytes) ==
    [k \in 1..(Len(bytes) \div 4) |-> SubSeq(bytes, 4 * k - 3, 4 * k)]

\* every chunk of chunks_exact(4) is four bytes long, so try_into succeeds
\* and the `?` never returns
convert_binary_to_embeddings(binary_data) ==
    Ok([k \in 1..Len(chunks_exact(binary_data)) |-> from_le_bytes(chunks_exact(binary_data)[k])])

RECURSIVE convert_embeddings_to_binary(_)
convert_embeddings_to_binary(values) ==
    IF values = <<>> THEN <<>>
    ELSE to_le_bytes(Head(values)) \o convert_embeddings_to_binary(Tail(values))

CodecInit ==
    /\ embeddings = None
    /\ binary = None
    /\ decoded = None

\* PlanetScaleDB::insert_embedding_data: the row gets the encoded slice
insert_embedding_data(values) ==
    /\ ~binary.some
    /\ embeddings' = Some(values)
    /\ binary' = Some(convert_embeddings_to_binary(values))
    /\ UNCHANGED decoded
    /\ UNCHANGED <<storageVars, apiVars, lockVars, pairVars>>

\* The BLOB column takes any bytes: a row of text_embeddings that another
\* client of the database wrote is what exec_first hands back as Vec<u8>
stored_row(bytes) ==
    /\ ~binary.some
    /\ binary' = Some(bytes)
    /\ UNCHANGED <<embeddings, decoded>>
    /\ UNCHANGED <<storageVars, apiVars, lockVars, pairVars>>

\* PlanetScaleDB::get_embedding_data on the row: the column is decoded
get_embedding_data ==
    /\ binary.some
    /\ ~decoded.some
    /\ decoded' = Some(convert_binary_to_embeddings(binary.val))
    /\ UNCHANGED <<embeddings, binary>>
    /\ UNCHANGED <<storageVars, apiVars, lockVars, pairVars>>

CodecNext ==
    \/ \E values \in SeqsUpTo(F32Values, MaxEmbeddingLen) : insert_embedding_data(values)
    \/ \E bytes \in SeqsUpTo(ByteValues, MaxBlobLen) : stored_row(bytes)
    \/ get_embedding_data


\* ------------------------------------------------------------------------
\* SQLiteDB shared by concurrent tasks: conn is Arc<Mutex<Connection>>
\* ------------------------------------------------------------------------

\* the tasks holding a clone of the SQLiteDB
Tasks == {"t1", "t2"}

\* the data strings the tasks pass
TaskData == {<<"x">>, <<Quote>>}

\* the calls a task can make through the Database trait
TaskCalls ==
    {[op |-> o, id |-> id, data |-> data] :
        o \in {"create", "update"}, id \in IdValues, data \in TaskData}
    \cup {[op |-> o, id |-> id, data |-> <<>>] : o \in {"read", "delete"}, id \in IdValues}

NoTaskCall == [op |-> "none", id |-> <<>>, data |-> <<>>]

\* what a statement reads of a row that another statement is in the middle
\* of writing: not a value any caller stored
PartialRecord == <<"partial">>

IsWrite(call) == call.op \in {"create", "update", "delete"}

\* the statement of the call, run on the rows t
Statement(t, call) ==
    CASE call.op = "create" -> SqliteInsert(t, call.id, call.data)
      [] call.op = "read" -> SqliteSelect(t, call.id)
      [] call.op = "update" -> SqliteUpdate(t, call.id, call.data)
      [] call.op = "delete" -> SqliteDelete(t, call.id)

LockInit ==
    /\ task = [c \in Tasks |-> [at |-> "idle", call |-> NoTaskCall, res |-> Ok(Unit)]]
    /\ holder = None
    /\ waiters = <<>>
    /\ racing = None

\* TRUE when task c calls create of an id that is not stored while another
\* task's create of the same id is still in progress
CreateMeetsCreate(c, call) ==
    /\ call.op = "create"
    /\ call.id \notin DOMAIN table
    /\ \E d \in Tasks \ {c} :
          /\ task[d].at \in {"waiting", "locked", "executing"}
          /\ task[d].call.op = "create"
          /\ task[d].call.id = call.id

\* create / read / update / delete up to self.conn.lock().await: the task
\* joins the queue of the mutex
lock_await(c, call) ==
    /\ db = "SQLiteDB"
    /\ task[c].at \in {"idle", "done"}
    /\ task' = [task EXCEPT ![c] = [at |-> "waiting", call |-> call, res |-> Ok(Unit)]]
    /\ waiters' = Append(waiters, c)
    /\ racing' = IF CreateMeetsCreate(c, call) THEN Some(call.id) ELSE None
    /\ UNCHANGED holder
    /\ UNCHANGED <<storageVars, apiVars, codecVars, pairVars>>

\* a mutex that hands its guard to the oldest waiter while another task
\* still owns one
lock_acquired_unguarded(c) ==
    /\ task[c].at = "waiting"
    /\ waiters # <<>>
    /\ Head(waiters) = c
    /\ holder' = Some(c)
    /\ waiters' = Tail(waiters)
    /\ task' = [task EXCEPT ![c].at = "locked"]
    /\ UNCHANGED racing
    /\ UNCHANGED <<storageVars, apiVars, codecVars, pairVars>>

\* tokio::sync::Mutex::lock resolves: the mutex is free and the task is the
\* oldest waiter (the mutex is fair, first in first out)
lock_acquired(c) ==
    /\ task[c].at = "waiting"
    /\ ~holder.some
    /\ waiters # <<>>
    /\ Head(waiters) = c
    /\ holder' = Some(c)
    /\ waiters' = Tail(waiters)
    /\ task' = [task EXCEPT ![c].at = "locked"]
    /\ UNCHANGED racing
    /\ UNCHANGED <<storageVars, apiVars, codecVars, pairVars>>

\* conn.execute / conn.prepare: the statement starts to run on the connection
statement_begin(c) ==
    /\ task[c].at = "locked"
    /\ task' = [task EXCEPT ![c].at = "executing"]
    /\ UNCHANGED <<holder, waiters, racing>>
    /\ UNCHANGED <<storageVars, apiVars, codecVars, pairVars>>

\* TRUE when another task's statement is writing the row of id right now
BeingWritten(c, id) ==
    \E d \in Tasks \ {c} :
        /\ task[d].at = "executing"
        /\ IsWrite(task[d].call)
        /\ task[d].call.id = id

\* what the statement of task c returns and leaves when it finishes now
StatementOutcome(c) ==
    IF task[c].call.op = "read" /\ BeingWritten(c, task[c].call.id)
    THEN [table |-> table, res |-> Ok(PartialRecord)]
    ELSE Statement(table, task[c].call)

\* the statement finishes and the call returns, but the guard is dropped
\* only on the Ok path
statement_end_leak_on_error(c) ==
    /\ task[c].at = "executing"
    /\ table' = StatementOutcome(c).table
    /\ task' = [task EXCEPT ![c].at = "done", ![c].res = StatementOutcome(c).res]
    /\ holder' = IF StatementOutcome(c).res.ok THEN None ELSE holder
    /\ UNCHANGED <<waiters, racing>>
    /\ UNCHANGED <<db, prevTable, lastCall>>
    /\ UNCHANGED <<apiVars, codecVars, pairVars>>

\* the statement finishes and the call returns, through Ok(..) or through
\* `?`: either way the guard conn goes out of scope and the mutex is free
statement_end(c) ==
    /\ task[c].at = "executing"
    /\ table' = StatementOutcome(c).table
    /\ task' = [task EXCEPT ![c].at = "done", ![c].res = StatementOutcome(c).res]
    /\ holder' = None
    /\ UNCHANGED <<waiters, racing>>
    /\ UNCHANGED <<db, prevTable, lastCall>>
    /\ UNCHANGED <<apiVars, codecVars, pairVars>>

LockNext ==
    \/ SQLiteDB_new
    \/ \E c \in Tasks, call \in TaskCalls : lock_await(c, call)
    \/ \E c \in Tasks : lock_acquired(c)
    \/ \E c \in Tasks : statement_begin(c)
    \/ \E c \in Tasks : statement_end(c)

\* the runtime polls every task that can make progress, and a statement
\* that runs finishes
LockFairness ==
    \A c \in Tasks :
        /\ WF_vars(lock_acquired(c))
        /\ WF_vars(statement_begin(c))
        /\ WF_vars(statement_end(c))

\* ------------------------------------------------------------------------
\* A SQLiteDB and a PlanetScaleDB given the same calls
\* ------------------------------------------------------------------------

Backends == {"SQLiteDB", "PlanetScaleDB"}

PairInit ==
    /\ stores = [b \in Backends |-> EmptyTable]
    /\ pairCall = NoTaskCall
    /\ outcomes = [b \in Backends |-> Ok(Unit)]

\* the call goes to both; each keeps its rows and hands back its result
Both(o, id, data, lite, scale) ==
    /\ stores' = [b \in Backends |-> IF b = "SQLiteDB" THEN lite.table ELSE scale.table]
    /\ outcomes' = [b \in Backends |-> IF b = "SQLiteDB" THEN lite.res ELSE scale.res]
    /\ pairCall' = [op |-> o, id |-> id, data |-> data]
    /\ UNCHANGED <<storageVars, apiVars, codecVars, lockVars>>

both_create(id, data) ==
    Both("create", id, data,
         SqliteInsert(stores["SQLiteDB"], id, data),
         execute_query(stores["PlanetScaleDB"], FormatInsert(id, data)))

both_read(id) ==
    Both("read", id, <<>>,
         SqliteSelect(stores["SQLiteDB"], id),
         PlanetScaleSelect(stores["PlanetScaleDB"], id))

both_update(id, data) ==
    Both("update", id, data,
         SqliteUpdate(stores["SQLiteDB"], id, data),
         execute_query(stores["PlanetScaleDB"], FormatUpdate(id, data)))

both_delete(id) ==
    Both("delete", id, <<>>,
         SqliteDelete(stores["SQLiteDB"], id),
         execute_query(stores["PlanetScaleDB"], FormatDelete(id)))

PairNext ==
    \/ \E id \in IdValues, data \in DataValues : both_create(id, data)
    \/ \E id \in IdValues : both_read(id)
    \/ \E id \in IdValues, data \in DataValues : both_update(id, data)
    \/ \E id \in IdValues : both_delete(id)

Init == StorageInit /\ ApiInit /\ CodecInit /\ LockInit /\ PairInit

Spec == Init /\ [][ApiNext]_vars

SpecStorage == Init /\ [][StorageNext]_vars

SpecCodec == Init /\ [][CodecNext]_vars

SpecSQLite == Init /\ [][LockNext]_vars

SpecSQLiteFair == Init /\ [][LockNext]_vars /\ LockFairness

SpecPair == Init /\ [][PairNext]_vars

\* ------------------------------------------------------------------------
\* Storage claims
\* ------------------------------------------------------------------------

\* the error kinds that say "no such record"
IsNotFound(res) == ~res.ok /\ res.err \in {"QueryReturnedNoRows", "NotFound"}

\* the error kinds that say "this id is already stored"
IsDuplicateKey(res) == ~res.ok /\ res.err \in {"ConstraintViolation", "DuplicateEntry"}

\* TRUE when read(id) found a record right before the last call
WasStored == ReadOf(db, prevTable, lastCall.id).ok

\* C1: on either backend, right after create(a, x) succeeded on a store
\* without a, read(a) returns x; right after update(a, y) succeeded on a
\* stored a, read(a) returns y; right after delete(a) succeeded, read(a)
\* fails with a not-found error.
C1_CrudReadBack ==
    /\ (lastCall.op = "create" /\ lastCall.res.ok)
          => ReadOf(db, table, lastCall.id) = Ok(lastCall.data)
    /\ (lastCall.op = "update" /\ lastCall.res.ok /\ WasStored)
          => ReadOf(db, table, lastCall.id) = Ok(lastCall.data)
    /\ (lastCall.op = "delete" /\ lastCall.res.ok)
          => IsNotFound(ReadOf(db, table, lastCall.id))

\* C2: update(id, data) and delete(id) on an id that is not stored return a
\* not-found error and leave the store unchanged.
C2_AbsentIdIsNotFound ==
    (lastCall.op \in {"update", "delete"} /\ ~WasStored)
        => (IsNotFound(lastCall.res) /\ table = prevTable)

\* C3: on SQLiteDB, create(id, data) on a stored id fails with the
\* duplicate-key error and leaves every row as it was.
C3_CreateDuplicateFails ==
    (db = "SQLiteDB" /\ lastCall.op = "create" /\ lastCall.id \in DOMAIN prevTable)
        => (IsDuplicateKey(lastCall.res) /\ table = prevTable)

\* C3 witness: a create on SQLiteDB met a stored id that held other data
C3_Witness ==
    /\ db = "SQLiteDB"
    /\ lastCall.op = "create"
    /\ lastCall.id \in DOMAIN prevTable
    /\ prevTable[lastCall.id] # lastCall.data


\* ------------------------------------------------------------------------
\* Request claims
\* ------------------------------------------------------------------------

\* the client-side validation of the operation o on the built request
ValidationOf(o) ==
    CASE o = "upsert" -> validate_upsert_request(req)
      [] o = "query" -> validate_query_request(req)
      [] o = "update" -> validate_update_request(req)
      [] o = "fetch" -> validate_fetch_request(req)
      [] o = "delete" -> validate_delete_request(req)
      [] o = "chat" -> validate(chat)
      [] OTHER -> None

Invoked == pc \in {"inflight", "done"}

\* C4: nothing goes to the network before an operation is invoked; an
\* operation whose request fails validation returns an error with no network
\* call made; one whose request passes makes exactly one call, also when
\* that call fails.
C4_ValidateThenOneCall ==
    /\ ~Invoked => wire = <<>>
    /\ (Invoked /\ ValidationOf(op).some)
          => (pc = "done" /\ wire = <<>> /\ ~result.ok)
    /\ (Invoked /\ ~ValidationOf(op).some) => Len(wire) = 1

\* C4 witness: a dispatched query failed in transport and returned, one call made
C4_Witness ==
    /\ pc = "done"
    /\ op = "query"
    /\ ~result.ok
    /\ result.msg = "transport"
    /\ Len(wire) = 1

\* the query rule in the words of the claim
QueryRule(r) ==
    /\ r.vector.some
    /\ r.top_k.some /\ r.top_k.val >= 1
    /\ r.id.some => Len(r.id.val) <= 512
    /\ r.sparse_vector.some =>
          /\ r.sparse_vector.val.indices.some
          /\ Len(r.sparse_vector.val.indices.val) > 0
          /\ Len(r.sparse_vector.val.indices.val) = Len(r.sparse_vector.val.values)

\* C5: a query request passes validation, and query dispatches it, exactly
\* when it meets the query rule; every other request is rejected with
\* QueryError and nothing is sent.
C5_QueryValidation ==
    /\ builder = "PineconeRequest" =>
          /\ validate_query_request(req).some <=> ~QueryRule(req)
          /\ validate_query_request(req).some =>
                validate_query_request(req).val.variant = "QueryError"
    /\ (op = "query" /\ Invoked) =>
          IF QueryRule(req)
          THEN Len(wire) = 1
          ELSE pc = "done" /\ wire = <<>> /\ ~result.ok /\ result.variant = "QueryError"

\* C5 witness: query dispatched a request that carries a sparse_vector
C5_Witness ==
    /\ op = "query"
    /\ pc = "inflight"
    /\ req.sparse_vector.some
    /\ Len(wire) = 1

\* the readings of "valid id" and "something to update" in the update claims
UpdateIdInRange(r) == r.id.some /\ Len(r.id.val) >= 1 /\ Len(r.id.val) <= 512

SparseWellFormed(v) ==
    /\ v.indices.some
    /\ Len(v.indices.val) > 0
    /\ Len(v.values) > 0
    /\ Len(v.indices.val) = Len(v.values)

SomethingToUpdate(r) ==
    /\ r.sparse_values.some \/ r.set_metadata.some
    /\ r.sparse_values.some => SparseWellFormed(r.sparse_values.val)

\* update returned UpdateError and sent nothing
UpdateRejected ==
    /\ pc = "done"
    /\ wire = <<>>
    /\ ~result.ok
    /\ result.variant = "UpdateError"

\* C6: update accepts every id of length 1 to 512 when something to update
\* is provided, and rejects with UpdateError an absent id, an empty id and
\* an id longer than 512.
C6_UpdateIdRange ==
    (op = "update" /\ Invoked) =>
        /\ (UpdateIdInRange(req) /\ SomethingToUpdate(req)) => Len(wire) = 1
        /\ ~UpdateIdInRange(req) => UpdateRejected

\* C7: an update with a valid id and neither sparse_values nor set_metadata
\* is rejected with UpdateError; an update with a valid id and at least one
\* of the two, sparse_values well-formed when present, passes validation.
C7_UpdateNeedsSomething ==
    (op = "update" /\ Invoked /\ UpdateIdInRange(req)) =>
        /\ (~req.sparse_values.some /\ ~req.set_metadata.some) => UpdateRejected
        /\ SomethingToUpdate(req) => (Len(wire) = 1 /\ ~UpdateRejected)

\* the delete rule in the words of the claim
DeleteRule(r) ==
    /\ r.ids.some \/ r.delete_all.some
    /\ r.ids.some => (r.ids.val.variant = "TextIds" /\ Len(r.ids.val.list) >= 1)

\* C8: a delete request passes validation, and delete dispatches it, exactly
\* when it meets the delete rule; every other request is rejected with
\* DeleteError and nothing is sent.
C8_DeleteValidation ==
    /\ builder = "PineconeRequest" =>
          /\ validate_delete_request(req).some <=> ~DeleteRule(req)
          /\ validate_delete_request(req).some =>
                validate_delete_request(req).val.variant = "DeleteError"
    /\ (op = "delete" /\ Invoked) =>
          IF DeleteRule(req)
          THEN Len(wire) = 1
          ELSE pc = "done" /\ wire = <<>> /\ ~result.ok /\ result.variant = "DeleteError"

\* C8 witness: delete rejected IntegerIds([1, 2]) although delete_all was set
C8_Witness ==
    /\ op = "delete"
    /\ pc = "done"
    /\ req.ids = Some(IntegerIds(<<1, 2>>))
    /\ req.delete_all.some
    /\ result.variant = "DeleteError"
    /\ wire = <<>>

\* C9: fetch returns FetchError with nothing sent when ids is absent or is
\* IntegerIds; it sends a request, one GET, only for TextIds.
C9_FetchNeedsTextIds ==
    (op = "fetch" /\ Invoked) =>
        IF req.ids.some /\ req.ids.val.variant = "TextIds"
        THEN Len(wire) = 1 /\ wire[1].method = "GET"
        ELSE pc = "done" /\ wire = <<>> /\ ~result.ok /\ result.variant = "FetchError"

\* C9 witness: fetch rejected a non-empty IntegerIds
C9_Witness ==
    /\ op = "fetch"
    /\ pc = "done"
    /\ req.ids = Some(IntegerIds(<<1, 2>>))
    /\ result.variant = "FetchError"
    /\ wire = <<>>

\* C10: upsert returns UpsertError("vectors cannot be empty") with nothing
\* sent when vectors is absent or empty, and posts the request to the upsert
\* endpoint when vectors holds at least one vector.
C10_UpsertNeedsVectors ==
    (op = "upsert" /\ Invoked) =>
        IF ~req.vectors.some \/ Len(req.vectors.val) = 0
        THEN /\ pc = "done"
             /\ wire = <<>>
             /\ result = ApiError("UpsertError", "vectors cannot be empty")
        ELSE wire = <<Post(<<BASE_URL, UPSERT>>, Serialize(req))>>

\* C10 witness: upsert rejected a request whose vectors is Some(empty list)
C10_Witness ==
    /\ op = "upsert"
    /\ pc = "done"
    /\ req.vectors = Some(<<>>)
    /\ result = ApiError("UpsertError", "vectors cannot be empty")
    /\ wire = <<>>

\* the closed range of the sampling field f, in hundredths
SamplingRange(f) ==
    CASE f = "temperature" -> [lo |-> 0, hi |-> 200]
      [] f = "top_p" -> [lo |-> 0, hi |-> 100]
      [] f = "presence_penalty" -> [lo |-> -200, hi |-> 200]
      [] f = "frequency_penalty" -> [lo |-> -200, hi |-> 200]

\* the field is absent, or present with a number inside its closed range
InClosedRange(c, f) ==
    c[f].some =>
        /\ ~c[f].val.nan
        /\ SamplingRange(f).lo <= c[f].val.x
        /\ c[f].val.x <= SamplingRange(f).hi

\* the error variant of the first out-of-range field, in the order of the claim
FirstOutOfRange(c) ==
    IF ~InClosedRange(c, "temperature") THEN "InvalidTemperature"
    ELSE IF ~InClosedRange(c, "top_p") THEN "InvalidTopP"
    ELSE IF ~InClosedRange(c, "presence_penalty") THEN "InvalidPresencePenalty"
    ELSE IF ~InClosedRange(c, "frequency_penalty") THEN "InvalidFrequencyPenalty"
    ELSE "none"

\* C11: the chat request's validation passes, and send dispatches, exactly
\* when every present sampling field lies in its closed range; otherwise
\* send returns the error of the first out-of-range field in the order
\* temperature, top_p, presence_penalty, frequency_penalty, nothing sent.
C11_SamplingValidation ==
    (op = "chat" /\ Invoked) =>
        IF FirstOutOfRange(chat) = "none"
        THEN Len(wire) = 1
        ELSE /\ pc = "done"
             /\ wire = <<>>
             /\ ~result.ok
             /\ result.variant = FirstOutOfRange(chat)

\* ------------------------------------------------------------------------
\* Codec claims
\* ------------------------------------------------------------------------

\* C12: whatever slice of f32 was encoded, decoding the bytes succeeds and
\* returns a sequence of the same length whose elements are those of the
\* slice in order, bit for bit; the encoding is four bytes per element.
C12_RoundTrip ==
    (embeddings.some /\ decoded.some) =>
        /\ Len(binary.val) = 4 * Len(embeddings.val)
        /\ decoded.val.ok
        /\ Len(decoded.val.val) = Len(embeddings.val)
        /\ \A k \in 1..Len(embeddings.val) : decoded.val.val[k] = embeddings.val[k]

\* C12 witness: a NaN with a payload followed by 0x01020304 went through
\* encode and decode
C12_Witness ==
    /\ embeddings.some
    /\ decoded.some
    /\ Len(embeddings.val) >= 2
    /\ embeddings.val[1] = F32(1, 255, 1)
    /\ embeddings.val[2] = F32(0, 2, 131844)

\* C13: decoding a byte buffer whose length is not a multiple of 4 returns
\* an error, never a float sequence.
C13_TruncatedInputFails ==
    (decoded.some /\ Len(binary.val) % 4 # 0) => ~decoded.val.ok

\* ------------------------------------------------------------------------
\* Concurrency claims (SQLiteDB)
\* ------------------------------------------------------------------------

\* the tasks whose statement is running on the connection
Executing == {c \in Tasks : task[c].at = "executing"}

\* C14: at most one task executes a statement on the shared connection at
\* any time, only the owner of the guard does, and every read that returned
\* data returned a record some call stored in full, never a partial one.
C14_SerializedStatements ==
    /\ Cardinality(Executing) <= 1
    /\ \A c \in Executing : holder = Some(c)
    /\ \A c \in Tasks :
          (task[c].at = "done" /\ task[c].call.op = "read" /\ task[c].res.ok) =>
              task[c].res.val \in TaskData

\* C14 witness: a read of a stored id is executing while an update of the
\* same id, called concurrently, waits for the mutex
C14_Witness ==
    \E c, d \in Tasks :
        /\ task[c].at = "executing"
        /\ task[c].call.op = "read"
        /\ task[d].at = "waiting"
        /\ task[d].call.op = "update"
        /\ task[d].call.id = task[c].call.id
        /\ task[c].call.id \in DOMAIN table

\* the guard is owned exactly by a task between lock_acquired and its return
GuardOwnedOnlyInsideCall ==
    /\ holder.some => task[holder.val].at \in {"locked", "executing"}
    /\ \A c \in Tasks : task[c].at \in {"locked", "executing"} => holder = Some(c)

\* C18: the lock is acquired before the statement executes and no task that
\* returned, with Ok or with an error, still owns it; under fair scheduling
\* every task waiting for the lock eventually completes its call.
C18_LockReleasedOnEveryPath ==
    /\ []GuardOwnedOnlyInsideCall
    /\ \A c \in Tasks : (task[c].at = "waiting") ~> (task[c].at = "done")

\* C18 witness: a call has just returned an error, the mutex is free and
\* another task is waiting for it
C18_Witness ==
    \E c, d \in Tasks :
        /\ task[c].at = "done"
        /\ ~task[c].res.ok
        /\ task[d].at = "waiting"
        /\ ~holder.some

\* ------------------------------------------------------------------------
\* Backend equivalence
\* ------------------------------------------------------------------------

\* the kind of an outcome: success, or the kind of the error
OutcomeKind(res) ==
    IF res.ok THEN "ok"
    ELSE IF IsNotFound(res) THEN "not found"
    ELSE IF IsDuplicateKey(res) THEN "duplicate key"
    ELSE res.err

\* C15: given the same calls from empty stores, the two backends return the
\* same outcome to every call: success with the same data, or the same kind
\* of error.
C15_SameOutcome ==
    /\ OutcomeKind(outcomes["SQLiteDB"]) = OutcomeKind(outcomes["PlanetScaleDB"])
    /\ outcomes["SQLiteDB"].ok => outcomes["SQLiteDB"].val = outcomes["PlanetScaleDB"].val

\* ------------------------------------------------------------------------
\* Request claims, continued
\* ------------------------------------------------------------------------

PineconeOps == {"upsert", "query", "update", "fetch", "delete"}

\* the operation met a failure: its validation failed, the transport failed,
\* the response was not a success, or its body did not deserialize
OperationFailed ==
    \/ ValidationOf(op).some
    \/ /\ reply.some
       /\ ~(reply.val.arrived /\ reply.val.success /\ reply.val.parses)

\* C16: an operation that met a failure returns the error variant of that
\* same operation; it returns success only when nothing failed.
C16_FailuresKeepTheirVariant ==
    (op \in PineconeOps /\ pc = "done") =>
        IF OperationFailed
        THEN ~result.ok /\ result.variant = ErrorOf(op)
        ELSE result.ok

\* the message of the first violated rule of a query, the rules taken in the
\* order vector, top_k, id length, sparse_vector; "none" without a violation
FirstQueryViolation(r) ==
    IF ~r.vector.some THEN "vector cannot be empty"
    ELSE IF ~r.top_k.some THEN "top_k cannot be empty"
    ELSE IF r.top_k.val < 1 THEN "top_k must be at least 1"
    ELSE IF r.id.some /\ Len(r.id.val) > 512 THEN "id length must be 512 or less"
    ELSE IF ~r.sparse_vector.some THEN "none"
    ELSE IF ~r.sparse_vector.val.indices.some \/ Len(r.sparse_vector.val.indices.val) = 0
    THEN "indices cannot be empty when providing a sparse_vector"
    ELSE IF Len(r.sparse_vector.val.indices.val) # Len(r.sparse_vector.val.values)
    THEN "indices and values must have the same length when providing a sparse_vector"
    ELSE "none"

\* C17: a rejected query returns the error of the first violated rule in the
\* order vector, top_k, id length, sparse_vector.
C17_QueryErrorOrder ==
    (op = "query" /\ pc = "done" /\ wire = <<>>) =>
        result.msg = FirstQueryViolation(req)

\* the query string of the claim: ?ids=<id> for the first id, &ids=<id> for
\* each one after it
RECURSIVE IdsQuery(_, _)
IdsQuery(ids, first) ==
    IF ids = <<>> THEN <<>>
    ELSE <<IF first THEN "?ids=" ELSE "&ids=">> \o Head(ids) \o IdsQuery(Tail(ids), FALSE)

ClaimedFetchUrl(r) ==
    <<BASE_URL, FETCH>>
        \o IdsQuery(r.ids.val.list, TRUE)
        \o (IF r.namespace.some
            THEN <<IF r.ids.val.list = <<>> THEN "?namespace=" ELSE "&namespace=">>
                     \o r.namespace.val
            ELSE <<>>)

\* C19: the url fetch requests is the vectors/fetch endpoint under the base
\* url, with one ids=<id> parameter per id in input order in its query
\* string, followed by namespace=<ns> exactly when a namespace is set.
C19_FetchUrlShape ==
    (op = "fetch" /\ Len(wire) = 1) => wire[1].url = ClaimedFetchUrl(req)

\* the fields each operation documents as its own ("Fields: ..." above each)
RelevantFields(o) ==
    CASE o = "upsert" -> {"vectors", "namespace"}
      [] o = "query" -> {"namespace", "top_k", "vector", "sparse_vector", "id"}
      [] o = "update" -> {"id", "sparse_values", "set_metadata", "namespace"}
      [] o = "delete" -> {"ids", "delete_all", "namespace"}
      [] OTHER -> {}

\* C20: the body of the request an operation posts carries only fields that
\* belong to that operation.
C20_OnlyRelevantFields ==
    (op \in {"upsert", "query", "update", "delete"} /\ Len(wire) = 1) =>
        \A e \in wire[1].body : \E f \in RelevantFields(op) : e[1] = WireName(f)

\* ------------------------------------------------------------------------
\* Concurrency claims (SQLiteDB), continued
\* ------------------------------------------------------------------------

\* the tasks whose call has returned
Returned == {c \in Tasks : task[c].at = "done"}

\* C21: after any interleaving every stored id holds one record, one that a
\* call stored; of two creates of the same absent id called concurrently,
\* the one that returns first succeeds, and once both have returned exactly
\* one has succeeded, the other has failed with the key violation, and the
\* stored data is that of the successful call.
C21_OneCreateWins ==
    /\ \A id \in DOMAIN table : id \in IdValues /\ table[id] \in TaskData
    /\ racing.some =>
          /\ \A c \in Returned :
                task[c].res.ok => /\ racing.val \in DOMAIN table
                                  /\ table[racing.val] = task[c].call.data
          /\ Returned # {} => \E c \in Returned : task[c].res.ok
          /\ Returned = Tasks =>
                /\ Cardinality({c \in Tasks : task[c].res.ok}) = 1
                /\ \A c \in Tasks : ~task[c].res.ok => IsDuplicateKey(task[c].res)

\* C21 witness: two creates of the same absent id with different data were
\* called concurrently and both have returned
C21_Witness ==
    /\ racing.some
    /\ Returned = Tasks
    /\ \E c, d \in Tasks : task[c].call.data # task[d].call.data

=============================================================================
